---- MODULE Spec2Model ----
(***************************************************************************)
(* State-machine model of the customer/billing web application.            *)
(*                                                                         *)
(* Two revisions of the application are modelled, both serving the same    *)
(* database (DATABASE_URL) and the same signed-cookie sessions:            *)
(*   src/app.py                    operations named as in the source       *)
(*   src/sistema_clientes/app.py   operations prefixed sc_                 *)
(*                                                                         *)
(* Text is a sequence of one-character strings, so that ILIKE, ORDER BY,   *)
(* float() and strptime() can be computed character by character.          *)
(* Amounts (Float column) are held in hundredths.                          *)
(***************************************************************************)
EXTENDS Integers, Sequences, FiniteSets, TLC

VARIABLES
    users,      \* table "user": set of rows [id, username, password_hash]
    clientes,   \* table "cliente": function id -> row
    issued,     \* the user ids for which the server has signed a session cookie
    deleted,    \* history: ids removed by a successful excluir_cliente
    resp        \* the request last served and its response

vars == <<users, clientes, issued, deleted, resp>>

---------------------------------------------------------------------------
(* Bounds of the model *)

\* largest customer id the model lets the store assign
MaxId == 2

---------------------------------------------------------------------------
(* Characters and text *)

\* the characters the model's texts use, in code-point order
Ascii ==
    <<" ", "%", ",", "-", ".", "/",
      "0", "1", "2", "3", "4", "5", "6", "7", "8", "9", "@",
      "A", "B", "C", "P", "T", "X", "_",
      "a", "b", "c", "d", "g", "i", "l", "n", "o", "p", "r", "s", "t", "x">>

Ord(c) == CHOOSE i \in 1..Len(Ascii) : Ascii[i] = c

\* lower() of one character
Lower(c) ==
    CASE c = "A" -> "a" [] c = "B" -> "b" [] c = "C" -> "c"
      [] c = "P" -> "p" [] c = "T" -> "t" [] c = "X" -> "x"
      [] OTHER -> c

Digits == <<"0", "1", "2", "3", "4", "5", "6", "7", "8", "9">>

IsDigit(c) == \E i \in 1..10 : Digits[i] = c

DigitVal(c) == (CHOOSE i \in 1..10 : Digits[i] = c) - 1

AllDigits(s) == \A i \in 1..Len(s) : IsDigit(s[i])

RECURSIVE ParseNat(_)
ParseNat(s) ==
    IF s = <<>> THEN 0
    ELSE 10 * ParseNat(SubSeq(s, 1, Len(s) - 1)) + DigitVal(s[Len(s)])

RECURSIVE NatToStr(_)
NatToStr(n) ==
    IF n < 10 THEN <<Digits[n + 1]>>
    ELSE NatToStr(n \div 10) \o <<Digits[(n % 10) + 1]>>

\* str.replace(old, new) for one-character old and new
Replace(s, old, new) == [i \in 1..Len(s) |-> IF s[i] = old THEN new ELSE s[i]]

\* str.strip(): leading and trailing blanks removed
RECURSIVE Strip(_)
Strip(s) ==
    IF s = <<>> THEN s
    ELSE IF Head(s) = " " THEN Strip(Tail(s))
    ELSE IF s[Len(s)] = " " THEN Strip(SubSeq(s, 1, Len(s) - 1))
    ELSE s

\* positions of character c in s
Positions(s, c) == {i \in 1..Len(s) : s[i] = c}

\* byte-wise comparison of two texts (the store's default BINARY collation)
RECURSIVE TextLess(_, _)
TextLess(a, b) ==
    IF b = <<>> THEN FALSE
    ELSE IF a = <<>> THEN TRUE
    ELSE IF Head(a) = Head(b) THEN TextLess(Tail(a), Tail(b))
    ELSE Ord(Head(a)) < Ord(Head(b))

\* SQL  s LIKE p  on lower-cased operands: % matches any run, _ any one character
RECURSIVE Like(_, _)
Like(p, s) ==
    IF p = <<>> THEN s = <<>>
    ELSE IF Head(p) = "%" THEN Like(Tail(p), s) \/ (s # <<>> /\ Like(p, Tail(s)))
    ELSE /\ s # <<>>
         /\ (Head(p) = "_" \/ Lower(Head(p)) = Lower(Head(s)))
         /\ Like(Tail(p), Tail(s))

\* column.ilike(f"%{search}%")
ilike(col, search) == Like(<<"%">> \o search \o <<"%">>, col)

---------------------------------------------------------------------------
(* Conversions of form values *)

\* float(text.replace(',', '.')): the value in hundredths, or ValueError.
\* Over the characters of Ascii, float() accepts exactly digits with at most
\* one point and at least one digit; fraction digits past the second are
\* below the model's resolution.
ParseFloat(text) ==
    LET t == Replace(text, ",", ".")
        dots == Positions(t, ".")
        d == IF dots = {} THEN Len(t) + 1 ELSE CHOOSE i \in dots : TRUE
        ip == SubSeq(t, 1, d - 1)
        fp == SubSeq(t, d + 1, Len(t))
        pad == SubSeq(fp \o <<"0", "0">>, 1, 2)
    IN  IF /\ Cardinality(dots) <= 1
           /\ AllDigits(ip) /\ AllDigits(fp)
           /\ Len(ip) + Len(fp) >= 1
        THEN [ok |-> TRUE, v |-> 100 * ParseNat(ip) + ParseNat(pad)]
        ELSE [ok |-> FALSE, v |-> 0]

\* CAST(valor_a_pagar AS VARCHAR): "10.0", "2.5", "0.25"
FloatToStr(v) ==
    LET frac == v % 100
    IN  NatToStr(v \div 100) \o <<".">> \o
        (IF frac % 10 = 0 THEN NatToStr(frac \div 10)
         ELSE <<Digits[(frac \div 10) + 1], Digits[(frac % 10) + 1]>>)

IsLeap(y) == (y % 4 = 0 /\ y % 100 # 0) \/ y % 400 = 0

DaysIn(y, m) ==
    IF m = 2 THEN (IF IsLeap(y) THEN 29 ELSE 28)
    ELSE IF m \in {4, 6, 9, 11} THEN 30 ELSE 31

\* datetime.strptime(text, '%Y-%m-%d').date(): <<y, m, d>>, or ValueError
strptime(text) ==
    LET dashes == Positions(text, "-")
        d1 == CHOOSE i \in dashes : \A j \in dashes : i <= j
        d2 == CHOOSE i \in dashes : \A j \in dashes : i >= j
        ys == SubSeq(text, 1, d1 - 1)
        ms == SubSeq(text, d1 + 1, d2 - 1)
        ds == SubSeq(text, d2 + 1, Len(text))
        y == ParseNat(ys)
        m == ParseNat(ms)
        d == ParseNat(ds)
    IN  IF /\ Cardinality(dashes) = 2
           /\ AllDigits(ys) /\ AllDigits(ms) /\ AllDigits(ds)
           /\ Len(ys) = 4 /\ Len(ms) \in {1, 2} /\ Len(ds) \in {1, 2}
           /\ y >= 1 /\ m \in 1..12 /\ d >= 1 /\ d <= DaysIn(y, m)
        THEN [ok |-> TRUE, v |-> <<y, m, d>>]
        ELSE [ok |-> FALSE, v |-> <<>>]

Pad(n, width) ==
    LET s == NatToStr(n)
    IN  [i \in 1..(width - Len(s)) |-> "0"] \o s

\* date.strftime('%d/%m/%Y')
strftime(date) ==
    Pad(date[3], 2) \o <<"/">> \o Pad(date[2], 2) \o <<"/">> \o Pad(date[1], 4)

---------------------------------------------------------------------------
(* Texts the model's requests carry *)

Empty == <<>>
Ana == <<"A", "n", "a">>
Bob == <<"b", "o", "b">>
APagar == <<"A", " ", "P", "a", "g", "a", "r">>
Pago == <<"P", "a", "g", "o">>
Parcial == <<"P", "a", "r", "c", "i", "a", "l">>
Todos == <<"T", "o", "d", "o", "s">>
\* a status outside the enumeration
Outro == <<"X">>

\* the three enumerated payment statuses
StatusValues == {APagar, Pago, Parcial}

\* date.today()
Today == <<2026, 11, 4>>

\* request.form of the customer form: the submissions the model draws from
Forms ==
    { [nome |-> Ana, email |-> <<"c", "a", "r">>, telefone |-> Empty,
       valor_a_pagar |-> <<"1", "0">>, status_pagamento |-> APagar,
       anotacoes |-> Empty, data_vencimento |-> <<"2", "0", "2", "6", "-", "1", "1", "-", "0", "4">>],
      [nome |-> Bob, email |-> Empty, telefone |-> <<"9">>,
       valor_a_pagar |-> <<"2", ",", "5">>, status_pagamento |-> Pago,
       anotacoes |-> Empty, data_vencimento |-> Empty],
      [nome |-> Ana, email |-> Empty, telefone |-> Empty,
       valor_a_pagar |-> <<"1", "0">>, status_pagamento |-> Parcial,
       anotacoes |-> Empty, data_vencimento |-> Empty],
      [nome |-> Bob, email |-> Empty, telefone |-> Empty,
       valor_a_pagar |-> <<"1", "0">>, status_pagamento |-> Outro,
       anotacoes |-> Empty, data_vencimento |-> Empty],
      [nome |-> Bob, email |-> Empty, telefone |-> Empty,
       valor_a_pagar |-> <<"x">>, status_pagamento |-> Pago,
       anotacoes |-> Empty, data_vencimento |-> Empty],
      [nome |-> Bob, email |-> Empty, telefone |-> Empty,
       valor_a_pagar |-> <<"1", "0">>, status_pagamento |-> Pago,
       anotacoes |-> Empty, data_vencimento |-> <<"0", "4", "/", "1", "1">>],
      [email |-> Empty, telefone |-> Empty,
       valor_a_pagar |-> <<"1", "0">>, status_pagamento |-> Pago,
       anotacoes |-> Empty, data_vencimento |-> Empty] }

\* request.args of the listing: status and q, each present or absent
StatusArgs == {Todos, Pago, Outro, Empty}
SearchArgs == {<<"C", "A">>, <<"_">>, <<"1">>}
ListArgs ==
    [status : StatusArgs, q : {Empty}] \cup [q : SearchArgs]
        \cup {[status |-> Pago, q |-> <<"C", "A">>], [page |-> <<"1">>]}

\* request.args.get(key, default)
Get(args, key, default) == IF key \in DOMAIN args THEN args[key] ELSE default

Usernames == {"teste", "nouser"}
Passwords == {"teste1", "wrong"}
LoginForms == [username : Usernames, password : Passwords]

---------------------------------------------------------------------------
(* Users, passwords and sessions *)

\* werkzeug's one-way hash, opaque: only check_password_hash relates it to a password
generate_password_hash(password) == <<"pbkdf2", password>>

check_password_hash(pwhash, password) == pwhash = generate_password_hash(password)

\* User.check_password
check_password(user, password) == check_password_hash(user.password_hash, password)

\* the id the store gives a new row: SQLite's INTEGER PRIMARY KEY is max(rowid)+1
NewId(ids) ==
    IF ids = {} THEN 1 ELSE (CHOOSE m \in ids : \A i \in ids : i <= m) + 1

\* User.query.filter_by(username=username).first(): the matching rows (at most one)
UserByName(username) == {u \in users : u.username = username}

\* The session cookie is signed by the server and holds the session itself:
\* <<>> when it names no user, else <<[user_id |-> id]>>. The server keeps no
\* record of sessions: any cookie it has ever signed verifies, and a request
\* may present any of them.
SessionCookies == {<<>>} \cup {<<[user_id |-> id]>> : id \in issued}

\* the user_loader callback: User.query.get(int(user_id))
load_user(user_id) == {u \in users : u.id = user_id}

\* flask_login's current_user for the presented cookie
current_user(cookie) == IF cookie = <<>> THEN {} ELSE load_user(cookie[1].user_id)

is_authenticated(cookie) == current_user(cookie) # {}

\* the request last served (revision, view, method, cookie presented, the
\* arguments the view read) and its response
Response(app, op, method, cookie, args, code, location, flash, body, set_cookie) ==
    [app |-> app, op |-> op, method |-> method, cookie |-> cookie, args |-> args,
     code |-> code, location |-> location, flash |-> flash, body |-> body,
     set_cookie |-> set_cookie]

\* login_manager.unauthorized(): what @login_required answers without a user,
\* before the view or any of its arguments is looked at
Unauthorized(app, op, method, cookie) ==
    /\ resp' = Response(app, op, method, cookie, <<>>, 302, "login",
                        "Por favor, faça login para acessar esta página.",
                        <<>>, <<>>)
    /\ UNCHANGED <<users, clientes, issued, deleted>>

InvalidLogin(app) ==
    IF app = "app" THEN "Login ou senha inválidos."
    ELSE "Login inválido. Verifique seu usuário e senha."

\* LoginOutcome with a notice of its own for a username that is not registered
LoginOutcomeLeaky(app, method, cookie, form) ==
    LET found == {u \in UserByName(form.username) : check_password(u, form.password)}
    IN  IF is_authenticated(cookie)
        THEN [args |-> <<>>, code |-> 302, location |-> "dashboard", flash |-> "",
              body |-> <<>>, set_cookie |-> <<>>]
        ELSE IF method = "POST" /\ found # {}
        THEN [args |-> form, code |-> 302, location |-> "dashboard", flash |-> "",
              body |-> <<>>,
              set_cookie |-> <<[user_id |-> (CHOOSE u \in found : TRUE).id]>>]
        ELSE [args |-> form, code |-> 200, location |-> "",
              flash |-> IF method # "POST" THEN ""
                        ELSE IF UserByName(form.username) = {}
                        THEN "Usuário não encontrado."
                        ELSE InvalidLogin(app),
              body |-> <<"login.html">>, set_cookie |-> <<>>]

\* what the login view of either revision answers (they differ in the notice
\* only): set_cookie is the session login_user() signs
LoginOutcome(app, method, cookie, form) ==
    LET found == {u \in UserByName(form.username) : check_password(u, form.password)}
    IN  IF is_authenticated(cookie)
        THEN [args |-> <<>>, code |-> 302, location |-> "dashboard", flash |-> "",
              body |-> <<>>, set_cookie |-> <<>>]
        ELSE IF method = "POST" /\ found # {}
        THEN [args |-> form, code |-> 302, location |-> "dashboard", flash |-> "",
              body |-> <<>>,
              set_cookie |-> <<[user_id |-> (CHOOSE u \in found : TRUE).id]>>]
        ELSE [args |-> form, code |-> 200, location |-> "",
              flash |-> IF method = "POST" THEN InvalidLogin(app) ELSE "",
              body |-> <<"login.html">>, set_cookie |-> <<>>]

LoginView(app, method, cookie, form) ==
    LET out == LoginOutcome(app, method, cookie, form)
    IN  /\ resp' = Response(app, "login", method, cookie, out.args, out.code,
                            out.location, out.flash, out.body, out.set_cookie)
        /\ issued' = issued \cup {out.set_cookie[k].user_id : k \in DOMAIN out.set_cookie}
        /\ UNCHANGED <<users, clientes, deleted>>

login(method, cookie, form) == LoginView("app", method, cookie, form)

sc_login(method, cookie, form) == LoginView("sistema_clientes", method, cookie, form)

\* the logout view of either revision: logout_user() drops the user from the
\* session, and the response replaces the browser's cookie
LogoutView(app, cookie) ==
    IF ~is_authenticated(cookie)
    THEN Unauthorized(app, "logout", "GET", cookie)
    ELSE /\ resp' = Response(app, "logout", "GET", cookie, <<>>, 302, "login",
                             "Você foi desconectado com sucesso.", <<>>, <<[cleared |-> TRUE]>>)
         /\ UNCHANGED <<users, clientes, issued, deleted>>

logout(cookie) == LogoutView("app", cookie)

sc_logout(cookie) == LogoutView("sistema_clientes", cookie)

\* flask create-user: adds the user teste unless it exists
CreateUser(app) ==
    /\ IF UserByName("teste") = {}
       THEN /\ users' = users \cup
                  {[id |-> NewId({u.id : u \in users}), username |-> "teste",
                    password_hash |-> generate_password_hash("teste1")]}
            /\ resp' = Response(app, "create-user", "CLI", <<>>, <<>>, 0, "", "",
                                <<"Usuário 'teste' criado com sucesso!">>, <<>>)
       ELSE /\ users' = users
            /\ resp' = Response(app, "create-user", "CLI", <<>>, <<>>, 0, "", "",
                                <<"Usuário 'teste' já existe.">>, <<>>)
    /\ UNCHANGED <<clientes, issued, deleted>>

create_user_command == CreateUser("app")

sc_create_user == CreateUser("sistema_clientes")

---------------------------------------------------------------------------
(* Queries over the cliente table *)

Ids == DOMAIN clientes

\* the ids in ascending order (the order of a query without ORDER BY)
RECURSIVE Ascending(_)
Ascending(ids) ==
    IF ids = {} THEN <<>>
    ELSE LET m == CHOOSE x \in ids : \A y \in ids : y <= x
         IN  Append(Ascending(ids \ {m}), m)

RECURSIVE SumValor(_)
SumValor(ids) ==
    IF ids = {} THEN 0
    ELSE LET i == CHOOSE x \in ids : TRUE
         IN  clientes[i].valor_a_pagar + SumValor(ids \ {i})

\* func.sum(...).scalar(): NULL (<<>>) over no rows, else <<the sum>>
SumScalar(ids) == IF ids = {} THEN <<>> ELSE <<SumValor(ids)>>

\* Python's  x or 0.0
OrZero(x) == IF x = <<>> \/ x = <<0>> THEN 0 ELSE x[1]

\* query.order_by(Cliente.nome).all(): the orders the store may return the
\* rows in; rows of equal nome come in no guaranteed order
order_by_nome(ids) ==
    {s \in [1..Cardinality(ids) -> ids] :
        /\ \A i, j \in 1..Cardinality(ids) : i # j => s[i] # s[j]
        /\ \A i, j \in 1..Cardinality(ids) :
              i < j => ~TextLess(clientes[s[j]].nome, clientes[s[i]].nome)}

\* Selected with the status argument never applied
SelectedAnyStatus(args) ==
    LET search == Get(args, "q", Empty)
    IN  {i \in Ids :
            search # Empty =>
                  \/ ilike(clientes[i].nome, search)
                  \/ ilike(clientes[i].email, search)
                  \/ ilike(clientes[i].telefone, search)
                  \/ ilike(clientes[i].anotacoes, search)
                  \/ ilike(clientes[i].status_pagamento, search)}

\* app.py listar_clientes: the rows its query selects
Selected(args) ==
    LET status == Get(args, "status", Todos)
        search == Get(args, "q", Empty)
    IN  {i \in Ids :
            /\ status # Todos => clientes[i].status_pagamento = status
            /\ search # Empty =>
                  \/ ilike(clientes[i].nome, search)
                  \/ ilike(clientes[i].email, search)
                  \/ ilike(clientes[i].telefone, search)
                  \/ ilike(clientes[i].anotacoes, search)
                  \/ ilike(clientes[i].status_pagamento, search)}

\* sistema_clientes/app.py listar_clientes: the rows its query selects
sc_Selected(args) ==
    LET status_filtro == Get(args, "status", Empty)
        search_query == Strip(Get(args, "q", Empty))
    IN  {i \in Ids :
            /\ (status_filtro # Empty /\ status_filtro # Todos)
                  => clientes[i].status_pagamento = status_filtro
            /\ search_query # Empty =>
                  \/ ilike(clientes[i].nome, search_query)
                  \/ ilike(clientes[i].email, search_query)
                  \/ ilike(clientes[i].anotacoes, search_query)
                  \/ ilike(clientes[i].telefone, search_query)
                  \/ ilike(clientes[i].status_pagamento, search_query)
                  \/ ilike(NatToStr(i), search_query)
                  \/ ilike(FloatToStr(clientes[i].valor_a_pagar), search_query)}

\* rows due today whose status is not Pago
vencimentos_hoje ==
    {i \in Ids : /\ clientes[i].data_vencimento = Today
                 /\ clientes[i].status_pagamento # Pago}

WithStatus(status) == {i \in Ids : clientes[i].status_pagamento = status}

\* app.py dashboard: one count, one GROUP BY, one filtered sum
DashboardStats ==
    LET total_clientes == Cardinality(Ids)
        counts == [s \in {clientes[i].status_pagamento : i \in Ids}
                      |-> Cardinality(WithStatus(s))]
        total_a_receber ==
            SumScalar({i \in Ids : clientes[i].status_pagamento # Pago})
    IN  [total_clientes |-> total_clientes,
         contagem_pagar |-> Get(counts, APagar, 0),
         contagem_pago |-> Get(counts, Pago, 0),
         contagem_parcial |-> Get(counts, Parcial, 0),
         total_a_receber |-> OrZero(total_a_receber),
         vencimentos_hoje |-> vencimentos_hoje]

\* sistema_clientes/app.py dashboard: four counts and one sum over IN (...)
sc_DashboardStats ==
    [total_clientes |-> Cardinality(Ids),
     contagem_pagar |-> Cardinality(WithStatus(APagar)),
     contagem_pago |-> Cardinality(WithStatus(Pago)),
     contagem_parcial |-> Cardinality(WithStatus(Parcial)),
     total_a_receber |->
         OrZero(SumScalar({i \in Ids :
                    clientes[i].status_pagamento \in {APagar, Parcial}})),
     vencimentos_hoje |-> vencimentos_hoje]

\* the dict exportar_clientes builds per row, as the cells in key order
ExportRow(c) ==
    <<c.nome, c.email, c.telefone, c.valor_a_pagar, c.status_pagamento,
      IF c.data_vencimento # <<>> THEN strftime(c.data_vencimento) ELSE Empty,
      c.anotacoes>>

ExportColumns ==
    <<"Nome", "Email", "Telefone", "Valor a Pagar", "Status",
      "Data de Vencimento", "Anotações">>

\* pd.DataFrame(dados).to_excel(index=False): the columns are the keys of the
\* dicts, so a DataFrame built from no dict has no column and writes no header
Sheet ==
    LET dados == [k \in 1..Cardinality(Ids) |-> ExportRow(clientes[Ascending(Ids)[k]])]
    IN  [header |-> IF dados = <<>> THEN <<>> ELSE ExportColumns,
         rows |-> dados]

---------------------------------------------------------------------------
(* Protected views of app.py *)

dashboard(cookie) ==
    IF ~is_authenticated(cookie)
    THEN Unauthorized("app", "dashboard", "GET", cookie)
    ELSE /\ resp' = Response("app", "dashboard", "GET", cookie, <<>>, 200, "", "",
                             <<"dashboard.html", DashboardStats>>, <<>>)
         /\ UNCHANGED <<users, clientes, issued, deleted>>

listar_clientes(cookie, args) ==
    IF ~is_authenticated(cookie)
    THEN Unauthorized("app", "listar_clientes", "GET", cookie)
    ELSE \E rows \in order_by_nome(Selected(args)) :
            /\ resp' = Response("app", "listar_clientes", "GET", cookie, args, 200,
                                "", "", <<"lista_clientes.html", rows>>, <<>>)
            /\ UNCHANGED <<users, clientes, issued, deleted>>

\* What reading the form does, in the order the view reads it: 400 when a key
\* is absent (request.form[...]), 500 when float() or strptime() raises, 0 when
\* every value is read
FormFault(form) ==
    LET Missing(k) == k \notin DOMAIN form
    IN  IF \E k \in {"nome", "email", "telefone", "valor_a_pagar"} : Missing(k)
        THEN 400
        ELSE IF ~ParseFloat(form.valor_a_pagar).ok THEN 500
        ELSE IF \E k \in {"status_pagamento", "anotacoes", "data_vencimento"} : Missing(k)
        THEN 400
        ELSE IF form.data_vencimento # Empty /\ ~strptime(form.data_vencimento).ok
        THEN 500
        ELSE 0

\* the column values the view takes from the form
FormRow(form) ==
    [nome |-> form.nome, email |-> form.email, telefone |-> form.telefone,
     valor_a_pagar |-> ParseFloat(form.valor_a_pagar).v,
     status_pagamento |-> form.status_pagamento,
     anotacoes |-> form.anotacoes,
     data_vencimento |-> IF form.data_vencimento # Empty
                         THEN strptime(form.data_vencimento).v ELSE <<>>]

\* the response to a form the view could not read; nothing was committed
Faulted(op, cookie, args, code) ==
    /\ resp' = Response("app", op, "POST", cookie, args, code, "", "",
                        IF code = 400 THEN <<"Bad Request">>
                        ELSE <<"Internal Server Error">>,
                        <<>>)
    /\ UNCHANGED <<users, clientes, issued, deleted>>

novo_cliente(method, cookie, form) ==
    IF ~is_authenticated(cookie)
    THEN Unauthorized("app", "novo_cliente", method, cookie)
    ELSE IF method = "GET"
    THEN /\ resp' = Response("app", "novo_cliente", method, cookie, <<>>, 200, "", "",
                             <<"form_cliente.html">>, <<>>)
         /\ UNCHANGED <<users, clientes, issued, deleted>>
    ELSE IF FormFault(form) # 0
    THEN Faulted("novo_cliente", cookie, <<>>, FormFault(form))
    ELSE /\ NewId(Ids) <= MaxId
         /\ clientes' = [i \in Ids \cup {NewId(Ids)} |->
                            IF i \in Ids THEN clientes[i] ELSE FormRow(form)]
         /\ resp' = Response("app", "novo_cliente", method, cookie, <<>>, 302,
                             "listar_clientes", "Cliente cadastrado com sucesso!",
                             <<>>, <<>>)
         /\ UNCHANGED <<users, issued, deleted>>

NotFound(app, op, method, cookie, args) ==
    /\ resp' = Response(app, op, method, cookie, args, 404, "", "", <<"Not Found">>,
                        <<>>)
    /\ UNCHANGED <<users, clientes, issued, deleted>>

editar_cliente(method, cookie, id, form) ==
    LET args == [id |-> id]
    IN  IF ~is_authenticated(cookie)
        THEN Unauthorized("app", "editar_cliente", method, cookie)
        ELSE IF id \notin Ids
        THEN NotFound("app", "editar_cliente", method, cookie, args)
        ELSE IF method = "GET"
        THEN /\ resp' = Response("app", "editar_cliente", method, cookie, args, 200,
                                 "", "", <<"form_cliente.html", clientes[id]>>, <<>>)
             /\ UNCHANGED <<users, clientes, issued, deleted>>
        ELSE IF FormFault(form) # 0
        THEN Faulted("editar_cliente", cookie, args, FormFault(form))
        ELSE /\ clientes' = [clientes EXCEPT ![id] = FormRow(form)]
             /\ resp' = Response("app", "editar_cliente", method, cookie, args, 302,
                                 "listar_clientes", "Cliente atualizado com sucesso!",
                                 <<>>, <<>>)
             /\ UNCHANGED <<users, issued, deleted>>

\* DeleteRow with the WHERE clause matching every id up to the given one
DeleteRowUpTo(id) == [i \in {j \in Ids : j > id} |-> clientes[i]]

\* db.session.delete(cliente); db.session.commit()
DeleteRow(id) == [i \in Ids \ {id} |-> clientes[i]]

\* ExcluirView with the @login_required decorator left off the route
ExcluirViewUngated(app, cookie, id) ==
    LET args == [id |-> id]
    IN  IF id \notin Ids
        THEN NotFound(app, "excluir_cliente", "POST", cookie, args)
        ELSE /\ clientes' = [i \in Ids \ {id} |-> clientes[i]]
             /\ deleted' = deleted \cup {id}
             /\ resp' = Response(app, "excluir_cliente", "POST", cookie, args, 302,
                                 "listar_clientes", "Cliente excluído com sucesso!",
                                 <<>>, <<>>)
             /\ UNCHANGED <<users, issued>>

\* the delete view of either revision (they differ in the notice's category only)
ExcluirView(app, cookie, id) ==
    LET args == [id |-> id]
    IN  IF ~is_authenticated(cookie)
        THEN Unauthorized(app, "excluir_cliente", "POST", cookie)
        ELSE IF id \notin Ids
        THEN NotFound(app, "excluir_cliente", "POST", cookie, args)
        ELSE /\ clientes' = DeleteRow(id)
             /\ deleted' = deleted \cup {id}
             /\ resp' = Response(app, "excluir_cliente", "POST", cookie, args, 302,
                                 "listar_clientes", "Cliente excluído com sucesso!",
                                 <<>>, <<>>)
             /\ UNCHANGED <<users, issued>>

excluir_cliente(cookie, id) == ExcluirView("app", cookie, id)

exportar_clientes(cookie) ==
    IF ~is_authenticated(cookie)
    THEN Unauthorized("app", "exportar_clientes", "GET", cookie)
    ELSE /\ resp' = Response("app", "exportar_clientes", "GET", cookie, <<>>, 200,
                             "", "", <<"clientes.xlsx", Sheet>>, <<>>)
         /\ UNCHANGED <<users, clientes, issued, deleted>>

---------------------------------------------------------------------------
(* Protected views of sistema_clientes/app.py.  The source elides the bodies *)
(* of novo_cliente, editar_cliente and exportar_clientes ("# ..."); they are *)
(* modelled as the file executes.                                            *)

sc_dashboard(cookie) ==
    IF ~is_authenticated(cookie)
    THEN Unauthorized("sistema_clientes", "dashboard", "GET", cookie)
    ELSE /\ resp' = Response("sistema_clientes", "dashboard", "GET", cookie, <<>>,
                             200, "", "", <<"dashboard.html", sc_DashboardStats>>, <<>>)
         /\ UNCHANGED <<users, clientes, issued, deleted>>

sc_listar_clientes(cookie, args) ==
    IF ~is_authenticated(cookie)
    THEN Unauthorized("sistema_clientes", "listar_clientes", "GET", cookie)
    ELSE \E rows \in order_by_nome(sc_Selected(args)) :
            /\ resp' = Response("sistema_clientes", "listar_clientes", "GET", cookie,
                                args, 200, "", "", <<"lista_clientes.html", rows>>, <<>>)
            /\ UNCHANGED <<users, clientes, issued, deleted>>

\* POST: the try block holds only the redirect
sc_novo_cliente(method, cookie) ==
    IF ~is_authenticated(cookie)
    THEN Unauthorized("sistema_clientes", "novo_cliente", method, cookie)
    ELSE /\ resp' = IF method = "POST"
                    THEN Response("sistema_clientes", "novo_cliente", method, cookie,
                                  <<>>, 302, "listar_clientes", "", <<>>, <<>>)
                    ELSE Response("sistema_clientes", "novo_cliente", method, cookie,
                                  <<>>, 200, "", "", <<"form_cliente.html">>, <<>>)
         /\ UNCHANGED <<users, clientes, issued, deleted>>

\* POST: the try block commits a session with no pending change
sc_editar_cliente(method, cookie, id) ==
    LET args == [id |-> id]
    IN  IF ~is_authenticated(cookie)
        THEN Unauthorized("sistema_clientes", "editar_cliente", method, cookie)
        ELSE IF id \notin Ids
        THEN NotFound("sistema_clientes", "editar_cliente", method, cookie, args)
        ELSE /\ resp' = IF method = "POST"
                        THEN Response("sistema_clientes", "editar_cliente", method,
                                      cookie, args, 302, "listar_clientes",
                                      "Cliente atualizado com sucesso!", <<>>, <<>>)
                        ELSE Response("sistema_clientes", "editar_cliente", method,
                                      cookie, args, 200, "", "",
                                      <<"form_cliente.html", clientes[id]>>, <<>>)
             /\ UNCHANGED <<users, clientes, issued, deleted>>

sc_excluir_cliente(cookie, id) == ExcluirView("sistema_clientes", cookie, id)

\* the try block names an output it never built: the except branch answers
sc_exportar_clientes(cookie) ==
    IF ~is_authenticated(cookie)
    THEN Unauthorized("sistema_clientes", "exportar_clientes", "GET", cookie)
    ELSE /\ resp' = Response("sistema_clientes", "exportar_clientes", "GET", cookie,
                             <<>>, 302, "listar_clientes",
                             "Ocorreu um erro ao exportar os dados", <<>>, <<>>)
         /\ UNCHANGED <<users, clientes, issued, deleted>>

---------------------------------------------------------------------------
(* The state machine *)

\* after flask init-db: the tables exist and are empty, no request was served
Init ==
    /\ users = {}
    /\ clientes = <<>>
    /\ issued = {}
    /\ deleted = {}
    /\ resp = Response("app", "init-db", "CLI", <<>>, <<>>, 0, "", "",
                       <<"Banco de dados inicializado e tabelas criadas com sucesso!">>,
                       <<>>)

Methods == {"GET", "POST"}

\* a GET carries no form
NoForm == <<>>
LoginRequests == {<<"GET", NoForm>>} \cup {<<"POST", f>> : f \in LoginForms}
FormRequests == {<<"GET", NoForm>>} \cup {<<"POST", f>> : f \in Forms}

Next ==
    \/ create_user_command
    \/ sc_create_user
    \/ \E c \in SessionCookies, r \in LoginRequests : login(r[1], c, r[2])
    \/ \E c \in SessionCookies, r \in LoginRequests : sc_login(r[1], c, r[2])
    \/ \E c \in SessionCookies : logout(c)
    \/ \E c \in SessionCookies : sc_logout(c)
    \/ \E c \in SessionCookies : dashboard(c)
    \/ \E c \in SessionCookies : sc_dashboard(c)
    \/ \E c \in SessionCookies, a \in ListArgs : listar_clientes(c, a)
    \/ \E c \in SessionCookies, a \in ListArgs : sc_listar_clientes(c, a)
    \/ \E c \in SessionCookies, r \in FormRequests : novo_cliente(r[1], c, r[2])
    \/ \E m \in Methods, c \in SessionCookies : sc_novo_cliente(m, c)
    \/ \E c \in SessionCookies, i \in 1..MaxId, r \in FormRequests :
          editar_cliente(r[1], c, i, r[2])
    \/ \E m \in Methods, c \in SessionCookies, i \in 1..MaxId :
          sc_editar_cliente(m, c, i)
    \/ \E c \in SessionCookies, i \in 1..MaxId : excluir_cliente(c, i)
    \/ \E c \in SessionCookies, i \in 1..MaxId : sc_excluir_cliente(c, i)
    \/ \E c \in SessionCookies : exportar_clientes(c)
    \/ \E c \in SessionCookies : sc_exportar_clientes(c)

Spec == Init /\ [][Next]_vars

---------------------------------------------------------------------------
(* Vocabulary of the properties *)

\* the views behind @login_required
ProtectedOps ==
    {"logout", "dashboard", "listar_clientes", "novo_cliente", "editar_cliente",
     "excluir_cliente", "exportar_clientes"}

\* the presented cookie resolves to no user of the store
NoIdentity(cookie) ==
    cookie = <<>> \/ \A u \in users : u.id # cookie[1].user_id

\* the response sends the caller to the login view
ToLogin(r) == r.code = 302 /\ r.location = "login"

\* the part of a response a caller can observe
Observable(r) ==
    [code |-> r.code, location |-> r.location, flash |-> r.flash, body |-> r.body,
     set_cookie |-> r.set_cookie]

\* the credentials are not those of a registered user
Rejectable(form) ==
    \A u \in users :
        ~(u.username = form.username /\ form.username = "teste" /\ form.password = "teste1")

---------------------------------------------------------------------------
(* C1 *)

\* C1: a request to a protected view that presents no resolved identity is
\* redirected to login, returns no data, sets no cookie, and leaves the
\* cliente and user tables as they were.
C1_UnauthenticatedNeverExecutes ==
    [][ (resp'.op \in ProtectedOps /\ NoIdentity(resp'.cookie))
            => /\ ToLogin(resp')
               /\ resp'.body = <<>>
               /\ resp'.set_cookie = <<>>
               /\ clientes' = clientes
               /\ users' = users ]_vars

\* an anonymous delete request was answered while a customer and a user exist
C1_Witness ==
    /\ resp.op = "excluir_cliente"
    /\ resp.cookie = <<>>
    /\ ToLogin(resp)
    /\ Ids # {}
    /\ users # {}

---------------------------------------------------------------------------
(* C2 *)

\* C2: once a logout has succeeded, the next request that presents the cookie
\* presented to that logout resolves to no identity: a protected view sends
\* it to login.
C2_StaleCookieRejected ==
    [][ ( /\ resp.op = "logout" /\ resp.set_cookie # <<>>
          /\ resp'.cookie = resp.cookie
          /\ resp'.op \in ProtectedOps )
            => ToLogin(resp') /\ resp'.body = <<>> ]_vars

---------------------------------------------------------------------------
(* C3 *)

---------------------------------------------------------------------------
(* C4 *)

\* C4: every stored customer's status_pagamento is one of A Pagar, Pago,
\* Parcial.
C4_StatusEnumerated ==
    \A i \in Ids : clientes[i].status_pagamento \in StatusValues

---------------------------------------------------------------------------
(* C5 *)

\* the statistics a rendered dashboard shows
Stats(r) == r.body[2]

Rendered(r, op) == r.op = op /\ r.code = 200 /\ r.method = "GET"

\* C5: on every dashboard either revision renders, the three per-status
\* counts add up to the total count.
C5_CountsSumToTotal ==
    Rendered(resp, "dashboard")
        => Stats(resp).contagem_pagar + Stats(resp).contagem_pago
               + Stats(resp).contagem_parcial = Stats(resp).total_clientes

---------------------------------------------------------------------------
(* C6 *)

\* the sum of valor_a_pagar over the stored rows of the given statuses
RECURSIVE Total(_)
Total(ids) ==
    IF ids = {} THEN 0
    ELSE LET i == CHOOSE x \in ids : TRUE
         IN  clientes[i].valor_a_pagar + Total(ids \ {i})

\* C6: on every dashboard either revision renders, total_a_receber is the sum
\* over the rows that are not Pago, which are the A Pagar and Parcial rows,
\* and both revisions compute the same value from the store.
C6_TotalReceivable ==
    Rendered(resp, "dashboard")
        => /\ Stats(resp).total_a_receber
                 = Total({i \in Ids : clientes[i].status_pagamento # Pago})
           /\ Stats(resp).total_a_receber
                 = Total({i \in Ids : clientes[i].status_pagamento \in {APagar, Parcial}})
           /\ DashboardStats.total_a_receber = sc_DashboardStats.total_a_receber

---------------------------------------------------------------------------
(* C7 *)

\* the rows a rendered listing shows, in order
Rows(r) == r.body[2]

RowSet(r) == {Rows(r)[k] : k \in 1..Len(Rows(r))}

\* search occurs in col as a substring, letter case ignored (no wildcard)
Contains(col, search) ==
    \E i \in 0..(Len(col) - Len(search)) :
        \A k \in 1..Len(search) : Lower(col[i + k]) = Lower(search[k])

\* the text occurs, letter case ignored, in one of the five searched fields
Matches(c, text) ==
    \/ Contains(c.nome, text)
    \/ Contains(c.email, text)
    \/ Contains(c.telefone, text)
    \/ Contains(c.anotacoes, text)
    \/ Contains(c.status_pagamento, text)

\* C7: the listing of app.py shows exactly the rows that pass the status
\* filter (Todos passes every row, another value the rows of that status) and,
\* for a non-empty search text, contain it in one of nome, email, telefone,
\* anotacoes or status_pagamento, each row once, in ascending order of nome.
C7_ListingExact ==
    (Rendered(resp, "listar_clientes") /\ resp.app = "app")
        => LET status == Get(resp.args, "status", Todos)
               text == Get(resp.args, "q", Empty)
           IN  /\ RowSet(resp) =
                     {i \in Ids :
                         /\ status = Todos \/ clientes[i].status_pagamento = status
                         /\ text = Empty \/ Matches(clientes[i], text)}
               /\ Len(Rows(resp)) = Cardinality(RowSet(resp))
               /\ \A j, k \in 1..Len(Rows(resp)) :
                     j < k => ~TextLess(clientes[Rows(resp)[k]].nome,
                                        clientes[Rows(resp)[j]].nome)

---------------------------------------------------------------------------
(* C8 *)

\* the status values for which a revision applies no status filter
NoFilter(app) == IF app = "app" THEN {Todos} ELSE {Todos, Empty}

\* the status argument as the revision reads it
StatusArg(r) == Get(r.args, "status", IF r.app = "app" THEN Todos ELSE Empty)

EmptySearch(r) == Get(r.args, "q", Empty) = Empty

\* C8 as stated: with an empty search, a status argument that is neither
\* Todos nor an enumerated status lists every row.
C8_UnrecognizedListsAll ==
    ( /\ Rendered(resp, "listar_clientes") /\ EmptySearch(resp)
      /\ "status" \in DOMAIN resp.args
      /\ resp.args.status \notin StatusValues \cup {Todos} )
        => RowSet(resp) = Ids

\* C8 amended: with an empty search, a status argument other than Todos (and,
\* in sistema_clientes/app.py, other than the empty text) lists exactly the
\* rows whose stored status equals it, enumerated or not; Todos, the empty
\* text in sistema_clientes/app.py, and an absent argument list every row.
C8_StatusFilterIsExactMatch ==
    (Rendered(resp, "listar_clientes") /\ EmptySearch(resp))
        => RowSet(resp) =
              IF StatusArg(resp) \in NoFilter(resp.app) THEN Ids
              ELSE {i \in Ids : clientes[i].status_pagamento = StatusArg(resp)}

\* a listing for a status outside the enumeration left a stored row out
C8_Witness ==
    /\ Rendered(resp, "listar_clientes") /\ EmptySearch(resp)
    /\ "status" \in DOMAIN resp.args
    /\ resp.args.status = Outro
    /\ RowSet(resp) # Ids
    /\ RowSet(resp) # {}

---------------------------------------------------------------------------
(* C9 *)

\* Cliente.query.get_or_404(id) answers 404
LookupNotFound(id) == id \notin Ids

\* a delete request from a resolved identity, and what it must do
DeleteContract ==
    (resp'.op = "excluir_cliente" /\ ~NoIdentity(resp'.cookie))
        => LET id == resp'.args.id
           IN  IF id \notin Ids
               THEN resp'.code = 404 /\ clientes' = clientes /\ users' = users
               ELSE /\ resp'.code = 302
                    /\ DOMAIN clientes' = Ids \ {id}
                    /\ \A j \in Ids \ {id} : clientes'[j] = clientes[j]
                    /\ users' = users

\* an edit or delete request from a resolved identity for an id that is not
\* stored answers 404 and changes nothing
MissingIsNotFound ==
    ( /\ resp'.op \in {"editar_cliente", "excluir_cliente"}
      /\ ~NoIdentity(resp'.cookie)
      /\ LookupNotFound(resp'.args.id) )
        => resp'.code = 404 /\ clientes' = clientes /\ users' = users

\* C9 as stated: the delete contract, and every later lookup, edit or delete
\* of a deleted id answers 404.
C9_DeletedIdStaysNotFound ==
    [][ /\ DeleteContract
        /\ MissingIsNotFound
        /\ \A id \in deleted :
              /\ LookupNotFound(id)'
              /\ (resp'.op \in {"editar_cliente", "excluir_cliente"}
                    /\ ~NoIdentity(resp'.cookie) /\ resp'.args.id = id)
                  => resp'.code = 404 ]_vars

\* C9 amended: the delete contract, and a lookup, edit or delete of a deleted
\* id answers 404 until a later create is given that id: only a successful
\* novo_cliente makes a deleted id found again.
C9_DeletedIdNotFoundUntilReassigned ==
    [][ /\ DeleteContract
        /\ MissingIsNotFound
        /\ (resp'.op = "excluir_cliente" /\ ~NoIdentity(resp'.cookie))
              => resp'.args.id \notin DOMAIN clientes'
        /\ \A id \in deleted :
              (LookupNotFound(id) /\ ~LookupNotFound(id)')
                  => resp'.op = "novo_cliente" /\ resp'.code = 302 ]_vars

\* a delete removed one customer and left another stored
C9_Witness ==
    /\ resp.op = "excluir_cliente"
    /\ resp.location = "listar_clientes"
    /\ resp.args.id \in deleted
    /\ LookupNotFound(resp.args.id)
    /\ Ids # {}

---------------------------------------------------------------------------
(* C10 *)

\* C10: the sheet app.py exports has the seven columns as its header row, in
\* the fixed order, and one data row per stored customer, also when no
\* customer is stored.
C10_ExportHasHeader ==
    (Rendered(resp, "exportar_clientes") /\ resp.app = "app")
        => /\ resp.body[2].header =
                 <<"Nome", "Email", "Telefone", "Valor a Pagar", "Status",
                   "Data de Vencimento", "Anotações">>
           /\ Len(resp.body[2].rows) = Cardinality(Ids)

---------------------------------------------------------------------------
(* C11 *)

\* the submission fails validation: a field of the customer form is missing,
\* the amount is not a decimal number, or the due date is given and is not a
\* calendar date written year-month-day
FailsValidation(form) ==
    \/ \E k \in {"nome", "email", "telefone", "valor_a_pagar", "status_pagamento",
                 "anotacoes", "data_vencimento"} : k \notin DOMAIN form
    \/ ~ParseFloat(form.valor_a_pagar).ok
    \/ form.data_vencimento # Empty /\ ~strptime(form.data_vencimento).ok

\* the request ended with the customer form rendered again under a notice,
\* and the cliente table is as it was before the request
RecoveredInRoute ==
    /\ resp'.code = 200
    /\ resp'.body # <<>>
    /\ resp'.body[1] = "form_cliente.html"
    /\ resp'.flash # ""
    /\ clientes' = clientes

\* C11: a create or edit submission of app.py, from a resolved identity, that
\* fails validation ends with the form rendered again under an error notice,
\* not with an unhandled fault, and leaves every stored customer unchanged.
C11_ValidationFailureRecovered ==
    [][ \A c \in SessionCookies, f \in Forms :
           (FailsValidation(f) /\ ~NoIdentity(c))
              => /\ novo_cliente("POST", c, f) => RecoveredInRoute
                 /\ \A i \in Ids :
                       editar_cliente("POST", c, i, f) => RecoveredInRoute ]_vars

====
